---- MODULE Spec2Model ----
(***************************************************************************)
(* Model of the two experiment drivers of the repository:                  *)
(*   src/wire_image_denoise.py  (task = "image")                           *)
(*   src/wire_occupancy.py      (task = "occupancy")                       *)
(* Both are one sequential script: set-up, an epoch loop with an inner     *)
(* minibatch loop, and a persistence tail.  The implicit model, the        *)
(* optimizer update and the experiment tracker are external; what they     *)
(* return is chosen nondeterministically from small sets.                  *)
(*                                                                         *)
(* Floats are modelled as naturals in units of 1/FixedPoint, with one      *)
(* extra value NaN for a non-finite result and Inf for float("inf").       *)
(***************************************************************************)
EXTENDS Integers, Sequences, FiniteSets, TLC

\* ---------------------------------------------------------------- bounds
\* epochs of a run
MaxIters == 2
\* samples and batch size of the runs whose model output is constant
MaxN == 3
MaxB == 2
\* samples of the runs whose model output varies
MaxNVar == 2

\* ------------------------------------------------------ float arithmetic
FixedPoint == 3 * 4
NaN == 0 - 1
Inf == 1000 * FixedPoint
SignalVals == {0, 1}
\* the ranges of the implicit model's output that a run is tried with
OutRanges == { {0}, {0, 1}, {0, NaN} }

IsNaN(a) == a = NaN

\* a < b on floats: every comparison with NaN is False
Lt(a, b) == ~IsNaN(a) /\ ~IsNaN(b) /\ a < b
LtOrEq(a, b) == ~IsNaN(a) /\ ~IsNaN(b) /\ a <= b

Min(a, b) == IF a < b THEN a ELSE b

RECURSIVE SumOver(_, _)
SumOver(f, S) ==
    IF S = {} THEN 0
    ELSE LET x == CHOOSE y \in S : TRUE IN f[x] + SumOver(f, S \ {x})

\* (a - b) ** 2 elementwise
SqErr(a, b) == IF IsNaN(a) \/ IsNaN(b) THEN NaN ELSE (a - b) * (a - b)

\* tensor.mean() of the function f over the index set S (S non-empty)
Mean(f, S) ==
    IF \E x \in S : IsNaN(f[x]) THEN NaN
    ELSE (SumOver(f, S) * FixedPoint) \div Cardinality(S)

\* ------------------------------------------------------------- constants
niters == MaxIters
mcubes_thres_num == 1
mcubes_thres_den == 2

VARIABLES
    task,            \* which script runs
    npix,            \* H*W (image) or H*W*T (occupancy)
    maxpoints,       \* batch size
    im,              \* ground truth signal (gt / imten), flattened
    im_noisy,        \* noisy observation (gt_noisy), image task
    wandb_on,        \* os.getenv("WANDB_LOG") in ["true", "True", True]
    out_range,       \* the values the implicit model returns in this run
    pc,              \* position of the script
    epoch,           \* loop variable (epoch / idx); niters once the loop is over
    indices,         \* torch.randperm of this epoch
    b_idx,           \* inner loop variable
    cnt,             \* cnt / nchunks
    version,         \* number of optim.step() calls = version of the parameters
    last_epoch,      \* scheduler.last_epoch
    lr_mult,         \* current value of the LambdaLR multiplier, times LrScale
    heap,            \* the tensors: "rec" (rec / im_estim) and "snap" (the copy)
    best_img,        \* reference: "None", "rec" or "snap"
    best_mse,
    lossval,         \* loss.item() of the last minibatch
    mse_array,
    mse_loss_array,
    time_array,
    now,             \* time.time()
    init_time,       \* init_time / tic
    saved,           \* mdict handed to io.savemat
    ckpt,            \* torch.save(model.state_dict()) happened
    batches,         \* history: the b_indices of this epoch, in order
    wver,            \* history: per sample, the parameter versions whose
                     \* predictions were written to the buffer in this epoch
    track,           \* history: the value compared with best_mse, per epoch
    best_epoch,      \* history: the epoch whose buffer best_img was bound to
    nonfinite,       \* history: a minibatch loss was non-finite
    log_failed       \* history: a tracker call raised

vars == << task, npix, maxpoints, im, im_noisy, wandb_on, out_range, pc, epoch, indices,
           b_idx, cnt, version, last_epoch, lr_mult, heap, best_img, best_mse,
           lossval, mse_array, mse_loss_array, time_array, now, init_time,
           saved, ckpt, batches, wver, track, best_epoch, nonfinite, log_failed >>

Idx == 0 .. (npix - 1)

Perms(n) == { f \in [0 .. (n - 1) -> 0 .. (n - 1)] :
                \A i, j \in 0 .. (n - 1) : f[i] = f[j] => i = j }

\* ---------------------------------------------------------- LR schedule
LrScale == 10 * 10

RECURSIVE Pow(_, _)
Pow(b, e) == IF e = 0 THEN 1 ELSE b * Pow(b, e - 1)

\* decay_factor = 1 / DecayDen: 0.1 (image), 0.2 (occupancy)
DecayDen(t) == IF t = "image" THEN 10 ELSE 5

\* lambda x: decay ** min(x / niters, 1), in units of 1/LrScale (rounded down):
\* the largest v with (v / LrScale) ** niters <= decay ** k, k the exponent's
\* numerator over niters
LrRoot(t, k) ==
    LET bound == Pow(LrScale, niters) \div Pow(DecayDen(t), k)
    IN  CHOOSE v \in 0 .. LrScale :
            Pow(v, niters) <= bound /\ Pow(v + 1, niters) > bound

LrLambdaNoClamp(t, x) == LrRoot(t, x)

LrLambda(t, x) == LrRoot(t, IF x < niters THEN x ELSE niters)

Tasks == {"image", "occupancy"}

\* scheduler steps beyond niters at which the schedule is also evaluated
ExtraSteps == 2

\* the schedule, tabulated
LrTable == [ t \in Tasks |-> [ x \in 0 .. (niters + ExtraSteps) |-> LrLambda(t, x) ] ]

\* ------------------------------------------------------------ minibatches
\* for b_idx in range(0, n, mp): whether the body runs for b
InRangeFullOnly(n, b, mp) == b + mp <= n

InRange(n, b, mp) == b < n

\* positions of indices[b : min(n, b + mp)]
BatchPos(n, b, mp) == b .. (Min(n, b + mp) - 1)

\* b_indices as a sequence, in slice order
RECURSIVE SliceSeq(_, _, _)
SliceSeq(perm, lo, hi) ==
    IF lo > hi THEN << >> ELSE << perm[lo] >> \o SliceSeq(perm, lo + 1, hi)

BIndices(perm, n, b, mp) ==
    LET P == BatchPos(n, b, mp)
    IN  IF P = {} THEN << >> ELSE SliceSeq(perm, b, b + Cardinality(P) - 1)

\* version of the parameters that the forward pass of a minibatch reads: the
\* forward pass and the buffer write come before optim.step()
PredVersionAfterStep(v) == v + 1

PredVersion(v) == v

\* rec[:, b_indices, :] = pixelvalues
WriteBuffer(buf, bi, pv) ==
    [ i \in DOMAIN buf |->
        IF \E k \in 1 .. Len(bi) : bi[k] = i
        THEN pv[CHOOSE k \in 1 .. Len(bi) : bi[k] = i]
        ELSE buf[i] ]

\* the same write in the history: sample i received a prediction of version ver
NoteWrite(w, bi, ver) ==
    [ i \in DOMAIN w |->
        IF \E k \in 1 .. Len(bi) : bi[k] = i THEN Append(w[i], ver) ELSE w[i] ]

\* ((pixelvalues - target[b_indices]) ** 2).mean()  /  MSELoss
BatchLoss(target, bi, pv) ==
    Mean([ k \in 1 .. Len(bi) |-> SqErr(pv[k], target[bi[k]]) ], 1 .. Len(bi))

\* ---------------------------------------------------------------- metrics
\* ((target - rec) ** 2).mean()
Mse(target, buf) ==
    Mean([ i \in DOMAIN buf |-> SqErr(target[i], buf[i]) ], DOMAIN buf)

\* v > mcubes_thres; a comparison with NaN is False
Above(v) == ~IsNaN(v) /\ v * mcubes_thres_den > mcubes_thres_num

\* volutils.get_IoU(estimate, reference, threshold)
get_IoU(buf, ref) ==
    LET inter == { i \in DOMAIN buf : Above(buf[i]) /\ Above(ref[i]) }
        union == { i \in DOMAIN buf : Above(buf[i]) \/ Above(ref[i]) }
    IN  IF union = {} THEN 0
        ELSE (Cardinality(inter) * FixedPoint) \div Cardinality(union)

\* ------------------------------------------------------ best reconstruction
\* the test that guards the update of best_mse / best_img
ImprovesOrTies(t, e, m, lv, bm) ==
    IF t = "image" THEN LtOrEq(m, bm) \/ e = 0 ELSE LtOrEq(lv, bm)

Improves(t, e, m, lv, bm) ==
    IF t = "image" THEN Lt(m, bm) \/ e = 0 ELSE Lt(lv, bm)

\* the value compared with best_mse, and stored in it on an update
Tracked(t, m, lv) == IF t = "image" THEN m ELSE lv

\* the value best_img is bound to: a copy of the buffer
\* (image: rec[0, ...].reshape(H, W, D).detach().cpu().numpy();
\*  occupancy: copy.deepcopy(im_estim))
SnapshotAlias(h) == [ heap |-> h, ref |-> "rec" ]

Snapshot(h) == [ heap |-> [ h EXCEPT !.snap = h.rec ], ref |-> "snap" ]

Deref(h, r) == h[r]

\* -------------------------------------------------------------- persistence
\* occupancy: (indices,) = np.where(time_array > 0); image: the whole arrays
KeptDropFirst(t, ta) ==
    IF t = "occupancy" THEN { i \in 1 .. Len(ta) : ta[i] > ta[1] }
    ELSE 1 .. Len(ta)

Kept(t, ta) ==
    IF t = "occupancy" THEN { i \in 1 .. Len(ta) : ta[i] > 0 }
    ELSE 1 .. Len(ta)

\* array[indices] for the increasing index set K
RECURSIVE Select(_, _, _)
Select(a, K, i) ==
    IF i > Len(a) THEN << >>
    ELSE (IF i \in K THEN << a[i] >> ELSE << >>) \o Select(a, K, i + 1)

Zeros(n) == [ i \in 1 .. n |-> 0 ]

NoMdict == [ written |-> FALSE, rec |-> << >>, mse_array |-> << >>,
             mse_noisy_array |-> << >>, time_array |-> << >> ]

\* ------------------------------------------------------------------- Init
ZeroBuf(n) == [ i \in 0 .. (n - 1) |-> 0 ]

NoWrites(n) == [ i \in 0 .. (n - 1) |-> << >> ]

\* utils.measure(im, noise_snr, tau): the noise changes at most the first sample
Noisy(x) == { x, [ x EXCEPT ![0] = 1 - x[0] ] }

Init ==
    /\ task \in Tasks
    /\ out_range \in OutRanges
    /\ npix \in 1 .. (IF out_range = {0} THEN MaxN ELSE MaxNVar)
    /\ \E b \in 1 .. MaxB :
          \* image: maxpoints = 256 * 256; occupancy: min(H * W * T, int(2e5))
          maxpoints = IF task = "image" THEN b ELSE Min(npix, b)
    /\ im \in [0 .. (npix - 1) -> SignalVals]
    /\ im_noisy \in (IF task = "image" THEN Noisy(im) ELSE {im})
    /\ wandb_on \in BOOLEAN
    /\ pc = "loop"
    /\ epoch = 0
    /\ indices = [ i \in 0 .. (npix - 1) |-> i ]
    /\ b_idx = 0
    /\ cnt = 0
    /\ version = 0
    /\ last_epoch = 0
    /\ lr_mult = LrTable[task][0]
    /\ heap = [ rec |-> ZeroBuf(npix), snap |-> ZeroBuf(npix) ]
    /\ best_img = "None"
    /\ best_mse = Inf
    /\ lossval = 0
    /\ mse_array = Zeros(niters)
    /\ mse_loss_array = Zeros(niters)
    /\ time_array = Zeros(niters)
    /\ now = 1
    /\ init_time = 1
    /\ saved = NoMdict
    /\ ckpt = FALSE
    /\ batches = << >>
    /\ wver = NoWrites(npix)
    /\ track = << >>
    /\ best_epoch = NaN
    /\ nonfinite = FALSE
    /\ log_failed = FALSE

config == << task, npix, maxpoints, im, im_noisy, wandb_on, out_range, init_time >>

\* ---------------------------------------------------------------- actions
\* for epoch in tbar: indices = torch.randperm(...); train_loss = cnt = 0
StartEpoch ==
    /\ pc = "loop"
    /\ epoch < niters
    /\ indices' \in Perms(npix)
    /\ b_idx' = 0
    /\ cnt' = 0
    /\ batches' = << >>
    /\ wver' = NoWrites(npix)
    /\ pc' = IF InRange(npix, 0, maxpoints) THEN "batch" ELSE "epoch_end"
    /\ UNCHANGED << config, epoch, version, last_epoch, lr_mult, heap, best_img,
                    best_mse, lossval, mse_array, mse_loss_array, time_array,
                    now, saved, ckpt, track, best_epoch, nonfinite, log_failed >>

\* one pass of the body of the minibatch loop: forward, buffer write, loss,
\* backward, optim.step(), cnt += 1
Minibatch ==
    /\ pc = "batch"
    /\ LET bi == BIndices(indices, npix, b_idx, maxpoints)
           target == IF task = "image" THEN im_noisy ELSE im
       IN  \E pv \in [1 .. Len(bi) -> out_range] :
             LET loss == BatchLoss(target, bi, pv) IN
             /\ heap' = [ heap EXCEPT
                            !.rec = WriteBuffer(heap.rec, bi, pv) ]
             /\ wver' = NoteWrite(wver, bi, PredVersion(version))
             /\ lossval' = loss
             /\ nonfinite' = (nonfinite \/ IsNaN(loss))
             /\ batches' = Append(batches, bi)
    /\ version' = version + 1
    /\ cnt' = cnt + 1
    /\ b_idx' = b_idx + maxpoints
    /\ pc' = IF InRange(npix, b_idx + maxpoints, maxpoints) THEN "batch" ELSE "epoch_end"
    /\ UNCHANGED << config, epoch, indices, last_epoch, lr_mult, best_img, best_mse,
                    mse_array, mse_loss_array, time_array, now, saved, ckpt,
                    track, best_epoch, log_failed >>

\* the rest of the epoch body, after the minibatch loop
EndEpoch ==
    /\ pc = "epoch_end"
    /\ \E raises \in BOOLEAN :
         LET t == now + 1
             mse == Mse(im, heap.rec)
             metric == IF task = "image" THEN mse ELSE get_IoU(heap.rec, im)
             snap == Snapshot(heap)
         IN
         /\ now' = t
         /\ mse_array' = [ mse_array EXCEPT ![epoch + 1] = metric ]
         /\ mse_loss_array' =
               IF task = "image"
               THEN [ mse_loss_array EXCEPT ![epoch + 1] = Mse(im_noisy, heap.rec) ]
               ELSE mse_loss_array
         /\ IF wandb_on /\ raises
            THEN \* xp.log raised: the exception leaves the script
                 /\ time_array' = IF task = "image"
                                  THEN [ time_array EXCEPT ![epoch + 1] = t - init_time ]
                                  ELSE time_array
                 /\ log_failed' = TRUE
                 /\ pc' = "aborted"
                 /\ UNCHANGED << epoch, last_epoch, lr_mult, heap, best_img,
                                 best_mse, track, best_epoch >>
            ELSE /\ ~raises
                 /\ time_array' = [ time_array EXCEPT ![epoch + 1] =
                                      IF task = "image" THEN t - init_time ELSE t ]
                 /\ last_epoch' = last_epoch + 1
                 /\ lr_mult' = LrTable[task][last_epoch + 1]
                 /\ track' = Append(track, Tracked(task, mse, lossval))
                 /\ IF Improves(task, epoch, mse, lossval, best_mse)
                    THEN /\ best_mse' = Tracked(task, mse, lossval)
                         /\ heap' = snap.heap
                         /\ best_img' = snap.ref
                         /\ best_epoch' = epoch
                    ELSE UNCHANGED << best_mse, heap, best_img, best_epoch >>
                 /\ epoch' = epoch + 1
                 /\ pc' = "loop"
                 /\ UNCHANGED log_failed
    /\ UNCHANGED << config, indices, b_idx, cnt, version, lossval, saved, ckpt,
                    batches, wver, nonfinite >>

\* after the loop: the metrics file and the model checkpoint
Persist ==
    /\ pc = "loop"
    /\ epoch >= niters
    /\ IF task = "occupancy" /\ best_img = "None"
       THEN \* best_img.reshape(H, W, T) on None: AttributeError
            /\ pc' = "aborted"
            /\ UNCHANGED << saved, ckpt >>
       ELSE LET K == Kept(task, time_array)
                ta == Select(time_array, K, 1)
            IN
            IF task = "image"
            THEN /\ saved' = [ written |-> TRUE,
                               rec |-> Deref(heap, best_img),
                               mse_array |-> mse_array,
                               mse_noisy_array |-> mse_loss_array,
                               time_array |-> time_array ]
                 /\ ckpt' = TRUE
                 /\ pc' = "upload"
            ELSE IF ta = << >>
            THEN \* time_array[0] on an empty array: IndexError
                 /\ pc' = "aborted"
                 /\ UNCHANGED << saved, ckpt >>
            ELSE /\ saved' = [ written |-> TRUE,
                               rec |-> << >>,
                               mse_array |-> Select(mse_array, K, 1),
                               mse_noisy_array |-> << >>,
                               time_array |-> [ i \in 1 .. Len(ta) |-> ta[i] - ta[1] ] ]
                 /\ ckpt' = TRUE
                 /\ pc' = "upload"
    /\ UNCHANGED << config, epoch, indices, b_idx, cnt, version, last_epoch, lr_mult,
                    heap, best_img, best_mse, lossval, mse_array, mse_loss_array,
                    time_array, now, batches, wver, track, best_epoch, nonfinite, log_failed >>

\* the last statement: wandb.log({... wandb.Image(best_img)}) / wandb.log_artifact
Upload ==
    /\ pc = "upload"
    /\ \E raises \in BOOLEAN :
         /\ log_failed' = (log_failed \/ raises)
         /\ pc' = IF raises THEN "aborted" ELSE "done"
    /\ UNCHANGED << config, epoch, indices, b_idx, cnt, version, last_epoch, lr_mult,
                    heap, best_img, best_mse, lossval, mse_array, mse_loss_array,
                    time_array, now, saved, ckpt, batches, wver, track, best_epoch, nonfinite >>

Next == StartEpoch \/ Minibatch \/ EndEpoch \/ Persist \/ Upload

Spec == Init /\ [][Next]_vars

\* ======================================================================
\* Properties
\* ======================================================================
LoopOver == pc \in {"upload", "done"} \/ (pc = "loop" /\ epoch >= niters)

EpochDone == pc = "epoch_end" /\ pc' = "loop"

\* what best_img refers to
BestVal == IF best_img = "None" THEN << >> ELSE Deref(heap, best_img)

BestBinding == << best_img, best_epoch, best_mse >>

\* ---------------------------------------------------------------------
\* C1: Best Reconstruction (and the running best) change only at the end of
\* an epoch, and only if the epoch is the first one or its tracked value is
\* strictly below every value tracked in an earlier epoch; an epoch whose
\* value is not strictly below some earlier value leaves both unchanged.
C1_Step ==
    LET new == track'[Len(track')]
        changed == BestBinding' # BestBinding \/ BestVal' # BestVal
    IN  /\ changed =>
              /\ EpochDone
              /\ \/ epoch = 0
                 \/ \A k \in 1 .. Len(track) : IsNaN(track[k]) \/ Lt(new, track[k])
        /\ ( /\ EpochDone
             /\ epoch > 0
             /\ \E k \in 1 .. Len(track) : ~IsNaN(track[k]) /\ ~Lt(new, track[k]) )
           => ~changed

C1_BestChangesOnlyOnStrictImprovement == [][C1_Step]_vars

C1_Witness ==
    /\ pc = "loop"
    /\ Len(track) = 2
    /\ ~IsNaN(track[1])
    /\ track[2] = track[1]
    /\ best_epoch = 0
    /\ BestVal # heap.rec

\* ---------------------------------------------------------------------
\* C2: at the end of the minibatch loop of an epoch, the minibatches are the
\* contiguous chunks of one permutation of 0..N-1: every index is in exactly
\* one minibatch, every minibatch has 1..B indices, only the last may have
\* fewer than B, and there are ceil(N / B) of them, one optimizer step each.
RECURSIVE Flatten(_)
Flatten(ss) == IF ss = << >> THEN << >> ELSE Head(ss) \o Flatten(Tail(ss))

NumBatches == (npix + maxpoints - 1) \div maxpoints

C2_MinibatchesPartitionThePermutation ==
    pc = "epoch_end" =>
        /\ indices \in Perms(npix)
        /\ Flatten(batches) = [ p \in 1 .. npix |-> indices[p - 1] ]
        /\ \A i \in Idx :
              Cardinality({ p \in 1 .. Len(Flatten(batches)) : Flatten(batches)[p] = i }) = 1
        /\ \A j \in 1 .. Len(batches) :
              /\ Len(batches[j]) >= 1
              /\ Len(batches[j]) <= maxpoints
              /\ j < Len(batches) => Len(batches[j]) = maxpoints
        /\ Len(batches) = NumBatches
        /\ cnt = NumBatches
        /\ version = (epoch + 1) * NumBatches

C2_Witness ==
    /\ pc = "epoch_end"
    /\ npix = 3
    /\ maxpoints = 2
    /\ Len(batches) = 2
    /\ Len(batches[1]) = 2
    /\ Len(batches[2]) = 1
    /\ indices[0] # 0

\* ---------------------------------------------------------------------
\* C3: the loop is left only after exactly niters epochs; what is handed to
\* persistence then holds niters entries per history array, the entries
\* recorded by the epochs, in epoch order; a recorded entry never changes.
C3_State ==
    /\ epoch <= niters
    /\ LoopOver => epoch = niters /\ Len(track) = niters
    /\ saved.written =>
          /\ epoch = niters
          /\ Len(saved.mse_array) = niters
          /\ Len(saved.time_array) = niters
          /\ saved.mse_array = mse_array
          /\ \A k \in 1 .. niters :
                saved.time_array[k] =
                    time_array[k] - (IF task = "image" THEN 0 ELSE time_array[1])
          /\ task = "image" =>
                /\ Len(saved.mse_noisy_array) = niters
                /\ saved.mse_noisy_array = mse_loss_array

C3_Step ==
    \A k \in 1 .. epoch :
        /\ mse_array'[k] = mse_array[k]
        /\ mse_loss_array'[k] = mse_loss_array[k]
        /\ time_array'[k] = time_array[k]

C3_ExactlyNitersEpochsAndEntries == [](C3_State) /\ [][C3_Step]_vars

C3_Witness ==
    /\ pc = "done"
    /\ task = "occupancy"
    /\ saved.written
    /\ Len(saved.mse_array) = niters
    /\ Len(saved.time_array) = niters
    /\ saved.mse_array[niters] > 0

\* ---------------------------------------------------------------------
\* C4: the multiplier at scheduler step e is decay ** min(e / niters, 1): it
\* is 1 at e = 0, decay at every e >= niters, and never increases with e; the
\* scheduler is stepped once per epoch, after the epoch's minibatches.
C4_State ==
    /\ lr_mult = LrTable[task][last_epoch]
    /\ last_epoch = 0 => lr_mult = LrScale
    /\ last_epoch >= niters => lr_mult * DecayDen(task) = LrScale
    /\ \A e \in niters .. (niters + ExtraSteps) :
          LrTable[task][e] * DecayDen(task) = LrScale
    /\ \A e \in 0 .. (niters + ExtraSteps - 1) :
          LrTable[task][e + 1] <= LrTable[task][e]
    /\ pc # "aborted" => last_epoch = epoch

C4_Step ==
    /\ lr_mult' <= lr_mult
    /\ last_epoch' # last_epoch =>
          /\ EpochDone
          /\ cnt = NumBatches
          /\ last_epoch' = last_epoch + 1

C5_NonFiniteLossAborts == nonfinite => pc = "aborted"

\* ---------------------------------------------------------------------
\* C6: a failed call to the experiment tracker never aborts the run: the
\* remaining epochs still run and the metrics file and the checkpoint are
\* still written.
C6_TrackerFailureNeverAborts ==
    (log_failed /\ pc = "aborted") => (epoch = niters /\ saved.written /\ ckpt)

\* ---------------------------------------------------------------------
\* C7: when the loop is over, Best Reconstruction is the buffer of the
\* earliest epoch with the best tracked metric: the lowest error against the
\* noisy observation (image), the highest IoU (occupancy).  Stated for runs
\* in which every loss and metric is finite.
ClaimedMetric == IF task = "image" THEN mse_loss_array ELSE mse_array

ClaimedBetter(a, b) == IF task = "image" THEN a < b ELSE a > b

ClaimedBestEpoch ==
    CHOOSE e \in 0 .. (niters - 1) :
        /\ \A d \in 0 .. (e - 1) : ClaimedBetter(ClaimedMetric[e + 1], ClaimedMetric[d + 1])
        /\ \A d \in e .. (niters - 1) : ~ClaimedBetter(ClaimedMetric[d + 1], ClaimedMetric[e + 1])

C7_BestIsEpochOfBestTrackedMetric ==
    ( /\ LoopOver
      /\ ~nonfinite
      /\ \A k \in 1 .. niters : ~IsNaN(mse_array[k]) /\ ~IsNaN(mse_loss_array[k]) )
    => best_epoch = ClaimedBestEpoch

\* ---------------------------------------------------------------------
\* C8: once the first epoch is complete Best Reconstruction is bound to that
\* epoch's buffer, whatever its metric or loss, and it is never empty when
\* the loop is over.
C8_FirstEpochAlwaysBindsBest ==
    /\ (Len(track) = 1 => best_epoch = 0 /\ best_img # "None")
    /\ (Len(track) >= 1 => best_img # "None")

\* ---------------------------------------------------------------------
\* C9: Best Reconstruction is a copy of the buffer: when it is bound it
\* equals the buffer of that moment, and no later write to the buffer
\* changes it; it changes only by being bound again at the end of an epoch.
C9_Step ==
    /\ BestBinding' # BestBinding => EpochDone /\ BestVal' = heap.rec
    /\ BestBinding' = BestBinding => BestVal' = BestVal

C9_BestIsACopy == [][C9_Step]_vars

C9_Witness ==
    /\ pc = "epoch_end"
    /\ epoch = 1
    /\ best_epoch = 0
    /\ best_img # "None"
    /\ BestVal # heap.rec

\* ---------------------------------------------------------------------
\* C10: the predictions written by the j-th minibatch of an epoch are those
\* of the parameters after j-1 optimizer steps of the epoch; at the end of
\* the minibatch loop every buffer entry was written exactly once in the
\* epoch and none holds a prediction of the parameters as they then are.
C10_BufferHoldsPreStepPredictions ==
    pc \in {"batch", "epoch_end"} =>
        /\ \A j \in 1 .. Len(batches) : \A k \in 1 .. Len(batches[j]) :
              wver[batches[j][k]] = << (version - cnt) + (j - 1) >>
        /\ pc = "epoch_end" =>
              /\ version - cnt = epoch * NumBatches
              /\ \A i \in Idx : Len(wver[i]) = 1 /\ wver[i][1] < version

C10_Witness ==
    /\ pc = "epoch_end"
    /\ epoch = 1
    /\ Len(batches) = 2
    /\ wver[batches[1][1]] = << 2 >>
    /\ wver[batches[2][1]] = << 3 >>
    /\ version = 4

====
